---- MODULE Spec2Model ----
(***************************************************************************)
(* Model of qrisp's quantum backtracking tree engine                       *)
(* (src/qrisp/quantum_backtracking/backtracking_tree.py): the node         *)
(* encoding (init_node / path_decoder), the Tree / Subtree objects and the *)
(* hybrid recursive search find_solution, which is driven by the results   *)
(* of a measurement oracle.                                                *)
(***************************************************************************)
EXTENDS Integers, Sequences, FiniteSets, TLC

\* ------------------------------------------------------------------ bounds
\* largest max_depth of a top-level tree
MaxDepth == 2
\* largest number of nodes of the top-level tree the measurement oracle reports
\* in one search
MaxSupport == 2
\* largest number of tree objects built in the encoding specification
MaxTrees == 4
\* largest number of calls of quantum_step, qstep_diffuser and estimate_phase
\* made on one tree
MaxCalls == 2
\* largest precision asked of estimate_phase
MaxPrecision == 2

\* degree = 2**branch_qv.size with the one-qubit branch variable of the examples
degree == 2

BranchVals == 0 .. (degree - 1)

\* probabilities are multiples of 1/16, so that 0.25 and 0.375 are exact
Quarter == 4
ThreeEighths == 6
One == 16
\* the probabilities one sampled outcome may carry
ProbVals == {4, 5, 6, 7}

VARIABLES
    s,               \* find_solution's local s, as the latest measurement left it
    support,         \* the nodes the measurement oracle reports in this search
    node,            \* the node the calls of the encoding specification address
    trees,           \* the tree objects, in order of construction; an id is an index
    made,            \* per tree: the call that constructed it
    encoded,         \* per tree: the argument of the init_node call made on it, if any
    call,            \* the latest call on a tree and its outcome
    cl_accept,       \* the classical accept function, as the set of accepted paths
    stack,           \* the call stack of find_solution, innermost frame last
    traversed_nodes, \* the list shared by all recursion levels
    mes_kwargs,      \* the keyword arguments of the latest multi_measurement call
    accept_function, \* the accept function given to the constructor of the tree
    reject_function, \* the reject function given to the constructor of the tree
    psi,             \* the state init_node or init_phi prepared in the registers
    applied          \* the calls of operators made on the tree since, in their order

\* the variables of the quantum session of the tree
session == <<accept_function, reject_function, psi, applied>>

vars == <<s, support, node, trees, made, encoded, call, cl_accept, stack, traversed_nodes,
          mes_kwargs, session>>

\* ------------------------------------------------------------ python lists
Reverse(lst) == [i \in 1 .. Len(lst) |-> lst[Len(lst) + 1 - i]]

Min(a, b) == IF a < b THEN a ELSE b

Max(a, b) == IF a > b THEN a ELSE b

\* lst[:l] with python's clamping and negative-index rule
SliceTo(lst, l) ==
    IF l >= 0 THEN SubSeq(lst, 1, Min(l, Len(lst)))
    ELSE SubSeq(lst, 1, Max(Len(lst) + l, 0))

\* arr[:len(vals)] = vals
SliceAssign(arr, vals) ==
    [i \in 1 .. Len(arr) |-> IF i <= Len(vals) THEN vals[i] ELSE arr[i]]

Zeros(n) == [i \in 1 .. n |-> 0]

\* all paths over the branch alphabet with at most n entries
Paths(n) == UNION {[1 .. k -> BranchVals] : k \in 0 .. n}

\* ------------------------------------------------------------ tree objects
\* QuantumBacktrackingTree.__init__: fresh registers, all in state 0
QuantumBacktrackingTree_init(max_depth) ==
    [max_depth        |-> max_depth,
     h                |-> 0,
     branch_qa        |-> Zeros(max_depth),
     branch_workspace |-> 0,
     is_subtree       |-> FALSE,
     root_path        |-> <<>>,
     original_tree    |-> 0]

\* the precondition with >= for >
Subtree_init_fails_at_equal(parent_tree, root_path) ==
    Len(root_path) >= parent_tree.max_depth

\* the precondition of Subtree.__init__
Subtree_init_fails(parent_tree, root_path) ==
    Len(root_path) > parent_tree.max_depth

\* Subtree.__init__ without the embedding array
Subtree_init_unextended(parent_tree, parent, root_path) ==
    LET base == QuantumBacktrackingTree_init(parent_tree.max_depth - Len(root_path))
    IN  [base EXCEPT !.is_subtree = TRUE,
                     !.root_path = root_path,
                     !.original_tree = parent]

\* Subtree.__init__ past its precondition; parent is the id of parent_tree
Subtree_init(parent_tree, parent, root_path) ==
    LET base == QuantumBacktrackingTree_init(parent_tree.max_depth - Len(root_path))
        embedding_array == Zeros(Len(root_path))
    IN  [base EXCEPT !.branch_qa = base.branch_qa \o embedding_array,
                     !.is_subtree = TRUE,
                     !.root_path = root_path,
                     !.original_tree = parent]

\* 2**k
RECURSIVE Pow2(_)
Pow2(k) == IF k = 0 THEN 1 ELSE 2 * Pow2(k - 1)

\* ceil(log2(m)) for m >= 1
RECURSIVE CeilLog2From(_, _)
CeilLog2From(m, k) == IF Pow2(k) >= m THEN k ELSE CeilLog2From(m, k + 1)

\* the width of h with max_depth+1 for max_depth+2
h_size_narrow(max_depth) == CeilLog2From(max_depth + 1, 0)

\* h_size = int(np.ceil(np.log2(max_depth+2))), the width of the register h
h_size(max_depth) == CeilLog2From(max_depth + 2, 0)

\* the values an unsigned register of the given width encodes
Encodable(v, size) == 0 <= v /\ v < Pow2(size)

\* the first statement of init_node with a register h that also takes the
\* negative values of a signed one
init_node_fails_signed(t, path) ==
    LET v == t.max_depth - Len(path)
    IN  ~(0 - Pow2(h_size(t.max_depth)) <= v /\ v < Pow2(h_size(t.max_depth)))

\* self.h[:] = self.max_depth - len(path), the first statement of both
\* init_node methods: the assignment raises when h cannot hold the value
init_node_fails(t, path) ==
    ~Encodable(t.max_depth - Len(path), h_size(t.max_depth))

\* init_node without the reversal of the path
QuantumBacktrackingTree_init_node_unreversed(t, path) ==
    [t EXCEPT !.h = t.max_depth - Len(path),
              !.branch_qa = IF Len(path) > 0
                            THEN SliceAssign(t.branch_qa, path)
                            ELSE t.branch_qa]

\* QuantumBacktrackingTree.init_node
QuantumBacktrackingTree_init_node(t, path) ==
    [t EXCEPT !.h = t.max_depth - Len(path),
              !.branch_qa = IF Len(path) > 0
                            THEN SliceAssign(t.branch_qa, Reverse(path))
                            ELSE t.branch_qa]

\* Subtree.init_node
Subtree_init_node(t, path) ==
    LET full == t.root_path \o path
    IN  [t EXCEPT !.h = t.max_depth - Len(path),
                  !.branch_qa = IF Len(full) > 0
                                THEN SliceAssign(t.branch_qa, Reverse(full))
                                ELSE t.branch_qa]

\* t.init_node(path), dispatched on the class of t
init_node(t, path) ==
    IF t.is_subtree THEN Subtree_init_node(t, path)
    ELSE QuantumBacktrackingTree_init_node(t, path)

\* path_decoder without the reversal of the slice
path_decoder_unreversed(t, h, branch_qa) ==
    LET l == t.max_depth - h
    IN  SliceTo(branch_qa, l)

\* QuantumBacktrackingTree.path_decoder
path_decoder(t, h, branch_qa) ==
    LET l == t.max_depth - h
    IN  Reverse(SliceTo(branch_qa, l))

\* Subtree.subtree without the root path of the receiver
RECURSIVE subtree_args_unprefixed(_, _, _)
subtree_args_unprefixed(ts, t, path) ==
    IF ts[t].is_subtree
    THEN subtree_args_unprefixed(ts, ts[t].original_tree, path)
    ELSE [parent |-> t, root_path |-> path]

\* The arguments (parent id, root_path) with which t.subtree(path) reaches
\* Subtree.__init__: QuantumBacktrackingTree.subtree constructs directly,
\* Subtree.subtree forwards to its original tree with the prefixed path.
RECURSIVE subtree_args(_, _, _)
subtree_args(ts, t, path) ==
    IF ts[t].is_subtree
    THEN subtree_args(ts, ts[t].original_tree, ts[t].root_path \o path)
    ELSE [parent |-> t, root_path |-> path]

\* QuantumBacktrackingTree.copy: Subtree(self, [])
copy_args(t) == [parent |-> t, root_path |-> <<>>]

NoCall == [op |-> "none", recv |-> 0, arg |-> <<>>, parent |-> 0, raised |-> FALSE,
           result |-> <<>>]

NotEncoded == [done |-> FALSE, path |-> <<>>, qpe |-> FALSE]

\* keyword arguments are sets of <<key, value>> pairs; {} is the default of
\* the parameter measurement_kwargs
NoKwargs == {}

\* the measurement options a caller may give
CallerKwargs == {<<"shots", "limited">>}

\* def reject(tree): return QuantumBool()
Trivial == [kind |-> "trivial", k |-> 0]

\* the session of a tree nothing was prepared or applied on
NoSession ==
    /\ accept_function = Trivial
    /\ reject_function = Trivial
    /\ psi = <<>>
    /\ applied = <<>>

\* --------------------------------------------- the encoding specification
\* One path is drawn at the start; the calls address it through the top-level
\* tree and through subtrees. The root of every tree stands for a prefix of the
\* path (its view), and every path argument leads from there along the path.
Onward(view, p) == {SubSeq(p, Len(view) + 1, j) : j \in Len(view) .. Len(p)}

IsPrefix(p, q) == Len(p) <= Len(q) /\ SubSeq(q, 1, Len(p)) = p

\* the path of the top-level tree's node that the root of tree t stands for
TopMade == [op |-> "new", recv |-> 0, arg |-> <<>>, parent |-> 0, view |-> <<>>]

InitEnc ==
    /\ \E d \in 0 .. MaxDepth : trees = <<QuantumBacktrackingTree_init(d)>>
    /\ node \in Paths(MaxDepth)
    /\ support = {}
    /\ s = 0
    /\ made = <<TopMade>>
    /\ encoded = <<NotEncoded>>
    /\ call = NoCall
    /\ cl_accept = {}
    /\ stack = <<>>
    /\ traversed_nodes = <<>>
    /\ mes_kwargs = NoKwargs
    /\ NoSession

\* Subtree(parent_tree, root_path), reached through the call op(arg) on recv:
\* the precondition raises before anything is allocated
Construct(op, recv, arg, a) ==
    IF Subtree_init_fails(trees[a.parent], a.root_path)
    THEN /\ call' = [op |-> op, recv |-> recv, arg |-> arg, parent |-> a.parent,
                     raised |-> TRUE, result |-> a.root_path]
         /\ UNCHANGED <<trees, made, encoded>>
    ELSE /\ trees' = Append(trees, Subtree_init(trees[a.parent], a.parent, a.root_path))
         /\ made' = Append(made, [op |-> op, recv |-> recv, arg |-> arg,
                                  parent |-> a.parent,
                                  view |-> made[recv].view \o arg])
         /\ encoded' = Append(encoded, NotEncoded)
         /\ call' = [op |-> op, recv |-> recv, arg |-> arg, parent |-> a.parent,
                     raised |-> FALSE, result |-> a.root_path]

\* t.subtree(path)
subtree(t, path) ==
    /\ Len(trees) < MaxTrees
    /\ Construct("subtree", t, path, subtree_args(trees, t, path))
    /\ UNCHANGED <<s, support, node, cl_accept, stack, traversed_nodes, mes_kwargs, session>>

\* t.copy()
copy(t) ==
    /\ Len(trees) < MaxTrees
    /\ Construct("copy", t, <<>>, copy_args(t))
    /\ UNCHANGED <<s, support, node, cl_accept, stack, traversed_nodes, mes_kwargs, session>>

\* t.init_node(path) on a tree whose registers are fresh, with path the way
\* from the root of t to the drawn node; a path longer than max_depth makes
\* the assignment to h raise
EncodeNode(t, path) ==
    /\ ~encoded[t].done
    /\ made[t].view \o path = node
    /\ IF init_node_fails(trees[t], path)
       THEN /\ call' = [op |-> "init_node", recv |-> t, arg |-> path, parent |-> 0,
                        raised |-> TRUE, result |-> <<>>]
            /\ UNCHANGED <<trees, encoded>>
       ELSE /\ trees' = [trees EXCEPT ![t] = init_node(trees[t], path)]
            /\ encoded' = [encoded EXCEPT ![t] = [@ EXCEPT !.done = TRUE, !.path = path]]
            /\ call' = [op |-> "init_node", recv |-> t, arg |-> path, parent |-> 0,
                        raised |-> FALSE, result |-> <<>>]
    /\ UNCHANGED <<s, support, node, made, cl_accept, stack, traversed_nodes, mes_kwargs, session>>

\* t.path_decoder(h, branch_qa) on the values the registers of t hold
DecodeNode(t) ==
    /\ encoded[t].done
    /\ call' = [op |-> "path_decoder", recv |-> t, arg |-> <<>>, parent |-> 0,
                raised |-> FALSE,
                result |-> path_decoder(trees[t], trees[t].h, trees[t].branch_qa)]
    /\ UNCHANGED <<s, support, node, trees, made, encoded, cl_accept, stack, traversed_nodes, mes_kwargs, session>>

NextEnc ==
    \/ \E t \in 1 .. Len(trees) : \E path \in Onward(made[t].view, node) : subtree(t, path)
    \/ \E t \in 1 .. Len(trees) : copy(t)
    \/ \E t \in 1 .. Len(trees) : \E path \in Onward(made[t].view, node) : EncodeNode(t, path)
    \/ \E t \in 1 .. Len(trees) : DecodeNode(t)

SpecEnc == InitEnc /\ [][NextEnc]_vars

\* ----------------------------------------------------------- introspection
\* QBTNode.sv_specifier with the path relative to the root of a Subtree
sv_specifier_relative(t, path) ==
    [h                |-> t.max_depth - Len(path),
     branch_workspace |-> 0,
     branch_qa        |-> [k \in 1 .. Len(t.branch_qa) |->
                              IF k - 1 < Len(path) THEN Reverse(path)[k] ELSE 0]]

\* QBTNode(tree, path).sv_specifier(), lines 1596-1611: the values of the
\* registers of tree t that stand for the node
sv_specifier(t, path) ==
    LET full == IF t.is_subtree THEN t.root_path \o path ELSE path
    IN  [h                |-> t.max_depth - Len(path),
         branch_workspace |-> 0,
         branch_qa        |-> [k \in 1 .. Len(t.branch_qa) |->
                                  IF k - 1 < Len(full) THEN Reverse(full)[k] ELSE 0]]

\* QBTNode(t, path).sv_specifier()
SvSpecifier(t, path) ==
    /\ call' = [op |-> "sv_specifier", recv |-> t, arg |-> path, parent |-> 0,
                raised |-> FALSE, result |-> sv_specifier(trees[t], path)]
    /\ UNCHANGED <<s, support, node, trees, made, encoded, cl_accept, stack, traversed_nodes, mes_kwargs, session>>

\* trees and subtrees with fresh registers, and the nodes of the drawn path
\* seen from them
NextView ==
    \/ \E t \in 1 .. Len(trees) : \E path \in Onward(made[t].view, node) : subtree(t, path)
    \/ \E t \in 1 .. Len(trees) : \E path \in Onward(made[t].view, node) : SvSpecifier(t, path)

SpecView == InitEnc /\ [][NextView]_vars

\* ----------------------------------------------------------- find_solution
\* A frame of find_solution: its parameters and locals and where it stands; a
\* frame starts with the defaults of the parameters that a call leaves out.
\*   pc "start"   at line 1496, "quantum" at line 1507, "loop" at the head of
\*   the for loop (i entries of new_branches consumed), "call" inside the
\*   recursive call, "returned" / "raised" once the call has ended.
Frame(t) ==
    [tree |-> t, path |-> <<>>, new_branches |-> <<>>, i |-> 0,
     new_path |-> <<>>, pc |-> "start", ret |-> "", val |-> <<>>,
     measurement_kwargs |-> NoKwargs]

PrecisionError == <<"insufficient precision">>

SubtreeError == <<"root path longer than maximum depth">>

Top == stack[Len(stack)]

SetTop(f) == [stack EXCEPT ![Len(stack)] = f]

\* the frame after "return val" (a list), "return None" and "raise"
ReturnList(f, val) == [f EXCEPT !.pc = "returned", !.ret = "list", !.val = val]

ReturnNone(f) == [f EXCEPT !.pc = "returned", !.ret = "None", !.val = <<>>]

Raise(f, e) == [f EXCEPT !.pc = "raised", !.ret = "error", !.val = e]

\* the (h, branch_qa) values of the node with relative path q of tree t
NodeState(t, q) ==
    LET r == init_node([t EXCEPT !.h = 0, !.branch_qa = Zeros(Len(t.branch_qa))], q)
    IN  [h |-> r.h, branch_qa |-> r.branch_qa]

\* the reported nodes that lie in tree t, as paths from its root
Rel(t) ==
    {SubSeq(a, Len(t.root_path) + 1, Len(a)) :
        a \in {x \in support : IsPrefix(t.root_path, x)}}

\* one entry of a measurement result: key (qpe_res, h, branch_qa), value v;
\* the code never reads the probability of an entry with qpe_res # 0, so one
\* value stands for all of them
Outcomes(t) ==
    {[qpe |-> e[1], h |-> NodeState(t, q).h, branch_qa |-> NodeState(t, q).branch_qa,
      v |-> e[2]] :
        e \in ({0} \X ProbVals) \cup {<<1, Quarter>>}, q \in Rel(t)}

RECURSIVE SumV(_)
SumV(m) == IF m = <<>> THEN 0 ELSE m[1].v + SumV(Tail(m))

\* the measurement results the oracle may return for tree t, in dict order
MesResults(t) ==
    UNION {{m \in [1 .. k -> Outcomes(t)] :
               /\ \A a, b \in 1 .. k :
                    a # b => <<m[a].h, m[a].branch_qa>> # <<m[b].h, m[b].branch_qa>>
               /\ SumV(m) <= One} :
           k \in 0 .. Cardinality(Rel(t))}

IsZeroBranch(e) == e.qpe = 0

Key(e) == [qpe |-> e.qpe, h |-> e.h, branch_qa |-> e.branch_qa]

\* lines 1523-1534: the keys of the entries with qpe_res == 0, in dict order,
\* and the sum of their probabilities
ZeroBranches(mes_res) ==
    LET zero == SelectSeq(mes_res, IsZeroBranch)
    IN  [i \in 1 .. Len(zero) |-> Key(zero[i])]

ZeroProbability(mes_res) == SumV(SelectSeq(mes_res, IsZeroBranch))

\* list.sort(key = lambda x : x[1]): stable, ascending in h
RECURSIVE SortFrom(_, _, _)
SortFrom(lst, k, top) ==
    IF k > top THEN <<>>
    ELSE LET HasH(x) == x.h = k
         IN  SelectSeq(lst, HasH) \o SortFrom(lst, k + 1, top)

\* the candidates left in the order of the measurement result
SortByH_unsorted(lst, top) == lst

SortByH(lst, top) == SortFrom(lst, 0, top)

\* the first threshold with < for <=
NoSolution_strict(p) == p < Quarter

\* lines 1536-1541, the two thresholds
NoSolution(p) == p <= Quarter

Insufficient(p) == p <= ThreeEighths

\* the base cases with the depth check ahead of the accept check
CheckRoot_depth_first ==
    /\ stack # <<>>
    /\ Top.pc = "start"
    /\ LET t == trees[Top.tree]
           path == IF t.is_subtree THEN t.root_path ELSE <<>>
           f == [Top EXCEPT !.path = path]
       IN  stack' = SetTop(IF t.max_depth = 0 THEN ReturnNone(f)
                           ELSE IF path \in cl_accept THEN ReturnList(f, <<>>)
                           ELSE [f EXCEPT !.pc = "quantum"])
    /\ UNCHANGED <<s, support, node, trees, made, encoded, call, cl_accept, traversed_nodes, mes_kwargs, session>>

\* lines 1496-1505: the classical base cases
CheckRoot ==
    /\ stack # <<>>
    /\ Top.pc = "start"
    /\ LET t == trees[Top.tree]
           path == IF t.is_subtree THEN t.root_path ELSE <<>>
           f == [Top EXCEPT !.path = path]
       IN  stack' = SetTop(IF path \in cl_accept THEN ReturnList(f, <<>>)
                           ELSE IF t.max_depth = 0 THEN ReturnNone(f)
                           ELSE [f EXCEPT !.pc = "quantum"])
    /\ UNCHANGED <<s, support, node, trees, made, encoded, call, cl_accept, traversed_nodes, mes_kwargs, session>>

\* lines 1507-1554: init_node([]), estimate_phase, the joint measurement,
\* the thresholds on s and the sort of the candidates
Measure ==
    /\ stack # <<>>
    /\ Top.pc = "quantum"
    /\ LET id == Top.tree
           t == init_node(trees[id], <<>>)
       IN  /\ trees' = [trees EXCEPT ![id] = t]
           /\ encoded' = [encoded EXCEPT ![id] = [done |-> TRUE, path |-> <<>>,
                                                  qpe |-> TRUE]]
           /\ \E mes_res \in MesResults(t) :
                LET new_branches == ZeroBranches(mes_res)
                    f == [Top EXCEPT !.new_branches = new_branches]
                IN  /\ s' = ZeroProbability(mes_res)
                    /\ stack' = SetTop(
                        IF NoSolution(s') THEN ReturnNone(f)
                        ELSE IF Insufficient(s') THEN Raise(f, PrecisionError)
                        ELSE [f EXCEPT !.new_branches = SortByH(new_branches, t.max_depth),
                                       !.pc = "loop"])
    /\ mes_kwargs' = Top.measurement_kwargs
    /\ UNCHANGED <<support, node, made, call, cl_accept, traversed_nodes, session>>

\* the candidate the for loop looks at next
NextBranch == Top.new_branches[Top.i + 1]

NextPath == path_decoder(trees[Top.tree], NextBranch.h, NextBranch.branch_qa)

\* line 1561 without the test for an empty relative path
Skipped_only_traversed(path, new_path) ==
    \E k \in 1 .. Len(traversed_nodes) : traversed_nodes[k] = path \o new_path

\* line 1561 without the test for a traversed node
Skipped_only_empty(path, new_path) == Len(new_path) = 0

\* line 1561
Skipped(path, new_path) ==
    \/ \E k \in 1 .. Len(traversed_nodes) : traversed_nodes[k] = path \o new_path
    \/ Len(new_path) = 0

\* lines 1556-1562: a candidate that is passed over
SkipBranch ==
    /\ stack # <<>>
    /\ Top.pc = "loop"
    /\ Top.i < Len(Top.new_branches)
    /\ Skipped(Top.path, NextPath)
    /\ stack' = SetTop([Top EXCEPT !.i = @ + 1])
    /\ UNCHANGED <<s, support, node, trees, made, encoded, call, cl_accept, traversed_nodes, mes_kwargs, session>>

\* lines 1556-1568: the subtree of a candidate and the recursive call on it
Recurse ==
    /\ stack # <<>>
    /\ Top.pc = "loop"
    /\ Top.i < Len(Top.new_branches)
    /\ ~Skipped(Top.path, NextPath)
    /\ Construct("subtree", Top.tree, NextPath, subtree_args(trees, Top.tree, NextPath))
    /\ stack' = IF call'.raised
                THEN SetTop(Raise(Top, SubtreeError))
                ELSE Append(SetTop([Top EXCEPT !.i = @ + 1, !.new_path = NextPath,
                                               !.pc = "call"]),
                            Frame(Len(trees')))
    /\ UNCHANGED <<s, support, node, cl_accept, traversed_nodes, mes_kwargs, session>>

\* the loop running out of candidates with "return None" for the raise
Exhausted_returns_None ==
    /\ stack # <<>>
    /\ Top.pc = "loop"
    /\ Top.i = Len(Top.new_branches)
    /\ stack' = SetTop(ReturnNone(Top))
    /\ UNCHANGED <<s, support, node, trees, made, encoded, call, cl_accept, traversed_nodes, mes_kwargs, session>>

\* lines 1577-1578: the loop ran out of candidates
Exhausted ==
    /\ stack # <<>>
    /\ Top.pc = "loop"
    /\ Top.i = Len(Top.new_branches)
    /\ stack' = SetTop(Raise(Top, PrecisionError))
    /\ UNCHANGED <<s, support, node, trees, made, encoded, call, cl_accept, traversed_nodes, mes_kwargs, session>>

Caller == stack[Len(stack) - 1]

Pop(f) == [SubSeq(stack, 1, Len(stack) - 1) EXCEPT ![Len(stack) - 1] = f]

\* lines 1571-1573 and 1580: the recursive call returned a list
FoundSolution ==
    /\ Len(stack) >= 2
    /\ Top.pc = "returned" /\ Top.ret = "list"
    /\ stack' = Pop(ReturnList(Caller, Caller.path \o Caller.new_path \o Top.val))
    /\ UNCHANGED <<s, support, node, trees, made, encoded, call, cl_accept, traversed_nodes, mes_kwargs, session>>

\* lines 1574-1575: the recursive call returned None
MarkTraversed ==
    /\ Len(stack) >= 2
    /\ Top.pc = "returned" /\ Top.ret = "None"
    /\ traversed_nodes' = Append(traversed_nodes, Caller.path \o Caller.new_path)
    /\ stack' = Pop([Caller EXCEPT !.pc = "loop"])
    /\ UNCHANGED <<s, support, node, trees, made, encoded, call, cl_accept, mes_kwargs, session>>

\* the recursive call wrapped in a handler that goes on to the next candidate
Propagate_swallowed ==
    /\ Len(stack) >= 2
    /\ Top.pc = "raised"
    /\ stack' = Pop([Caller EXCEPT !.pc = "loop"])
    /\ UNCHANGED <<s, support, node, trees, made, encoded, call, cl_accept, traversed_nodes, mes_kwargs, session>>

\* line 1568: the recursive call raised, and nothing catches it
Propagate ==
    /\ Len(stack) >= 2
    /\ Top.pc = "raised"
    /\ stack' = Pop(Raise(Caller, Top.val))
    /\ UNCHANGED <<s, support, node, trees, made, encoded, call, cl_accept, traversed_nodes, mes_kwargs, session>>

\* find_solution on a top-level tree with a classical accept function
Init ==
    /\ \E d \in 0 .. MaxDepth : trees = <<QuantumBacktrackingTree_init(d)>>
    /\ support \in {S \in SUBSET Paths(trees[1].max_depth) : Cardinality(S) <= MaxSupport}
    /\ cl_accept \in {{}} \cup {{p} : p \in support \cup {<<>>}}
    /\ node = <<>>
    /\ s = 0
    /\ made = <<TopMade>>
    /\ encoded = <<NotEncoded>>
    /\ call = NoCall
    /\ stack = <<Frame(1)>>
    /\ traversed_nodes = <<>>
    /\ mes_kwargs = NoKwargs
    /\ NoSession

Next ==
    \/ CheckRoot
    \/ Measure
    \/ SkipBranch
    \/ Recurse
    \/ Exhausted
    \/ FoundSolution
    \/ MarkTraversed
    \/ Propagate

Spec == Init /\ [][Next]_vars

\* find_solution on a top-level tree, called with measurement options
InitKwargs ==
    /\ \E d \in 0 .. MaxDepth : trees = <<QuantumBacktrackingTree_init(d)>>
    /\ support \in {S \in SUBSET Paths(trees[1].max_depth) : Cardinality(S) <= MaxSupport}
    /\ cl_accept \in {{}} \cup {{p} : p \in support \cup {<<>>}}
    /\ node = <<>>
    /\ s = 0
    /\ made = <<TopMade>>
    /\ encoded = <<NotEncoded>>
    /\ call = NoCall
    /\ stack = <<[Frame(1) EXCEPT !.measurement_kwargs = CallerKwargs]>>
    /\ traversed_nodes = <<>>
    /\ mes_kwargs = NoKwargs
    /\ NoSession

SpecKwargs == InitKwargs /\ [][Next]_vars

\* ------------------------------------------------------------- amplitudes
\* The gates of psi_prep have entries such as 1/sqrt(3) and sqrt(2)/sqrt(3).
\* Amplitudes are kept exactly, as sums z1*sqrt(m1) + z2*sqrt(m2) + ... with
\* integers z and square-free m, written as the function m |-> z on the m with
\* z # 0; a state vector is kept up to one positive factor common to all its
\* amplitudes (every gate below is the unitary gate times a positive number).
RECURSIVE GCD(_, _)
GCD(a, b) == IF b = 0 THEN a ELSE GCD(b, a % b)

AZero == [m \in {} |-> 0]

\* z * sqrt(m) for square-free m
ATerm(z, m) == IF z = 0 THEN AZero ELSE [k \in {m} |-> z]

AOne == ATerm(1, 1)

ACoef(a, m) == IF m \in DOMAIN a THEN a[m] ELSE 0

AAdd(a, b) ==
    LET D == {m \in DOMAIN a \cup DOMAIN b : ACoef(a, m) + ACoef(b, m) # 0}
    IN  [m \in D |-> ACoef(a, m) + ACoef(b, m)]

ANeg(a) == [m \in DOMAIN a |-> 0 - a[m]]

\* sqrt(m) * sqrt(k) = g * sqrt((m / g) * (k / g)) with g = gcd(m, k)
RadProduct(m, k) == (m \div GCD(m, k)) * (k \div GCD(m, k))

\* a * (z * sqrt(k))
AMulTerm(a, z, k) ==
    IF z = 0 THEN AZero
    ELSE LET D == {RadProduct(m, k) : m \in DOMAIN a}
             Src(r) == CHOOSE m \in DOMAIN a : RadProduct(m, k) = r
         IN  [r \in D |-> a[Src(r)] * z * GCD(Src(r), k)]

RECURSIVE AMulFrom(_, _, _)
AMulFrom(a, b, todo) ==
    IF todo = {} THEN AZero
    ELSE LET k == CHOOSE x \in todo : TRUE
         IN  AAdd(AMulTerm(a, b[k], k), AMulFrom(a, b, todo \ {k}))

AMul(a, b) == AMulFrom(a, b, DOMAIN b)

\* the largest j with j * j dividing k
RECURSIVE SquarePartFrom(_, _)
SquarePartFrom(k, j) ==
    IF j * j > k THEN 1
    ELSE LET rest == SquarePartFrom(k, j + 1)
         IN  IF rest > 1 THEN rest
             ELSE IF k % (j * j) = 0 THEN j ELSE 1

RECURSIVE SquarePart(_)
SquarePart(k) ==
    LET j == SquarePartFrom(k, 2)
    IN  IF j = 1 THEN 1 ELSE j * SquarePart(k \div (j * j))

\* sqrt(k) for an integer k >= 0
ASqrt(k) ==
    IF k = 0 THEN AZero
    ELSE ATerm(SquarePart(k), k \div (SquarePart(k) * SquarePart(k)))

\* ----------------------------------------------------------------- circuits
\* The methods of the tree append instructions to the circuit of its quantum
\* session. An instruction is a gate with the control environments it stands
\* in, or a marker for the start of a call (it applies nothing).
Instr(g) ==
    [gate |-> g, p |-> 0, r |-> 0, by |-> 0, controls |-> <<>>,
     qubits |-> <<>>, ctrl_state |-> <<>>, even |-> FALSE, ctrl |-> <<>>]

\* a qubit: the register it belongs to and its index there
Qubit(reg, idx) == [reg |-> reg, idx |-> idx]

\* x.h.significant(0)
oddity_qb == Qubit("h", 0)

\* ry(p * phase + r * root_phase, oddity_qb)
ry(p, r) == [Instr("ry") EXCEPT !.p = p, !.r = r]

\* cyclic_shift(list(x.branch_qa) + [x.branch_workspace])
cyclic_shift == [Instr("cyclic_shift") EXCEPT !.by = 1]

\* h(x.branch_qa[0])
h_branch == [Instr("h") EXCEPT !.qubits = <<Qubit("branch_qa", 0)>>]

\* increment(x.h, by)
increment(by) == [Instr("increment") EXCEPT !.by = by]

\* mcz(mcz_list, ctrl_state = ctrl_state)
mcz(mcz_list, ctrl_state) ==
    [Instr("mcz") EXCEPT !.qubits = mcz_list, !.ctrl_state = ctrl_state]

\* with control(qubits, ctrl_state = ctrl_state, invert = invert): circuit
\* "on" names the control qubits: "h[1:]" or "oddity_qb"
control(on, ctrl_state, invert, circuit) ==
    [k \in 1 .. Len(circuit) |->
        [circuit[k] EXCEPT !.controls =
            <<[on |-> on, ctrl_state |-> ctrl_state, invert |-> invert]>> \o @]]

\* the inverse of one gate
Dagger(g) == [g EXCEPT !.p = 0 - @, !.r = 0 - @, !.by = 0 - @]

\* with invert(): circuit
invert(circuit) ==
    [k \in 1 .. Len(circuit) |-> Dagger(circuit[Len(circuit) + 1 - k])]

\* a >> 1
ShiftRight1(a) == a \div 2

\* python's truth value of an integer
truthy(v) == v # 0

\* the new level of a node: the step that brings in the zero of the
\* workspace as branch_qa[0] and spreads it over the branches
NewBranch ==
    control("oddity_qb", 0, FALSE, <<cyclic_shift, h_branch>>)

\* psi_prep with the root selected by max_depth >> 1 in the even branch
\* too, as if h had not been decremented there
psi_prep_root_undecremented(x, even) ==
    IF ~even
    THEN IF truthy(x.max_depth % 2)
         THEN <<ry(1, 0)>>
              \o control("h[1:]", ShiftRight1(x.max_depth), FALSE, <<ry(-1, 1)>>)
              \o NewBranch
         ELSE control("h[1:]", ShiftRight1(x.max_depth), TRUE,
                      <<ry(1, 0)>> \o NewBranch)
    ELSE <<increment(-1)>>
         \o control("h[1:]", -1, FALSE, <<ry(-1, 0)>>)
         \o (IF ~truthy(x.max_depth % 2)
             THEN <<ry(1, 0)>>
                  \o control("h[1:]", ShiftRight1(x.max_depth), FALSE, <<ry(-1, 1)>>)
                  \o NewBranch
             ELSE control("h[1:]", ShiftRight1(x.max_depth), TRUE,
                          <<ry(1, 0)>> \o NewBranch))
         \o <<increment(1)>>

\* psi_prep(x, even), lines 1315-1417
psi_prep(x, even) ==
    IF ~even
    THEN IF truthy(x.max_depth % 2)
         THEN <<ry(1, 0)>>
              \o control("h[1:]", ShiftRight1(x.max_depth), FALSE, <<ry(-1, 1)>>)
              \o NewBranch
         ELSE control("h[1:]", ShiftRight1(x.max_depth), TRUE,
                      <<ry(1, 0)>> \o NewBranch)
    ELSE <<increment(-1)>>
         \o control("h[1:]", -1, FALSE, <<ry(-1, 0)>>)
         \o (IF ~truthy(x.max_depth % 2)
             THEN <<ry(1, 0)>>
                  \o control("h[1:]", ShiftRight1(x.max_depth - 1), FALSE, <<ry(-1, 1)>>)
                  \o NewBranch
             ELSE control("h[1:]", ShiftRight1(x.max_depth - 1), TRUE,
                          <<ry(1, 0)>> \o NewBranch))
         \o <<increment(1)>>

\* the number of qubits of branch_qv, from self.degree = 2**branch_qv.size
branch_qv_size == CeilLog2From(degree, 0)

\* a marker for the start of a call of a method of the tree
Call(name, even, ctrl) == [Instr(name) EXCEPT !.even = even, !.ctrl = ctrl]

\* "1"*n, "0"*n: a control-state string, one character per entry
Chars(c, n) == [k \in 1 .. n |-> c]

\* list(self.branch_workspace)
WorkspaceQubits == [k \in 1 .. branch_qv_size |-> Qubit("branch_workspace", k - 1)]

\* qstep_diffuser with psi_prep in place of its inverse
qstep_diffuser_uninverted(self, even, ctrl) ==
    LET parity == IF even THEN "0" ELSE "1"
        mcz_list1 == <<oddity_qb>> \o WorkspaceQubits
                     \o <<Qubit("accept_value.flip", 0)>>
                     \o <<Qubit("reject_value.flip", 0)>>
                     \o ctrl
        ctrl_state1 == <<parity>> \o Chars("0", branch_qv_size) \o <<"1">> \o <<"1">>
                       \o Chars("1", Len(ctrl))
        mcz_list2 == <<oddity_qb>> \o <<Qubit("reject_value", 0)>> \o ctrl
        ctrl_state2 == <<parity>> \o Chars("1", Len(mcz_list2) - 1)
    IN  <<Call("qstep_diffuser", even, ctrl)>>
        \o psi_prep(self, even)
        \o <<Instr("accept"), Instr("reject")>>
        \o <<mcz(mcz_list1, ctrl_state1)>>
        \o psi_prep(self, even)
        \o <<Instr("reject")>>
        \o <<mcz(mcz_list2, ctrl_state2)>>

\* qstep_diffuser with reject evaluated once: the second mcz reads the
\* value of the first evaluation
qstep_diffuser_single_reject(self, even, ctrl) ==
    LET parity == IF even THEN "0" ELSE "1"
        mcz_list1 == <<oddity_qb>> \o WorkspaceQubits
                     \o <<Qubit("accept_value.flip", 0)>>
                     \o <<Qubit("reject_value.flip", 0)>>
                     \o ctrl
        ctrl_state1 == <<parity>> \o Chars("0", branch_qv_size) \o <<"1">> \o <<"1">>
                       \o Chars("1", Len(ctrl))
        mcz_list2 == <<oddity_qb>> \o <<Qubit("reject_value", 0)>> \o ctrl
        ctrl_state2 == <<parity>> \o Chars("1", Len(mcz_list2) - 1)
    IN  <<Call("qstep_diffuser", even, ctrl)>>
        \o invert(psi_prep(self, even))
        \o <<Instr("accept"), Instr("reject")>>
        \o <<mcz(mcz_list1, ctrl_state1)>>
        \o psi_prep(self, even)
        \o <<mcz(mcz_list2, ctrl_state2)>>

\* qstep_diffuser with a control state of the first mcz that has no
\* characters for the qubits of ctrl
qstep_diffuser_ctrl_uncounted(self, even, ctrl) ==
    LET parity == IF even THEN "0" ELSE "1"
        mcz_list1 == <<oddity_qb>> \o WorkspaceQubits
                     \o <<Qubit("accept_value.flip", 0)>>
                     \o <<Qubit("reject_value.flip", 0)>>
                     \o ctrl
        ctrl_state1 == <<parity>> \o Chars("0", branch_qv_size) \o <<"1">> \o <<"1">>
        mcz_list2 == <<oddity_qb>> \o <<Qubit("reject_value", 0)>> \o ctrl
        ctrl_state2 == <<parity>> \o Chars("1", Len(mcz_list2) - 1)
    IN  <<Call("qstep_diffuser", even, ctrl)>>
        \o invert(psi_prep(self, even))
        \o <<Instr("accept"), Instr("reject")>>
        \o <<mcz(mcz_list1, ctrl_state1)>>
        \o psi_prep(self, even)
        \o <<Instr("reject")>>
        \o <<mcz(mcz_list2, ctrl_state2)>>

\* qstep_diffuser(self, even, ctrl), lines 414-562. The temporaries
\* accept_value and reject_value are released by auto_uncompute; a qubit of
\* register "accept_value.flip" carries the negation of the evaluation that
\* precedes the gate, one of "reject_value" the evaluation itself.
qstep_diffuser(self, even, ctrl) ==
    LET parity == IF even THEN "0" ELSE "1"
        mcz_list1 == <<oddity_qb>> \o WorkspaceQubits
                     \o <<Qubit("accept_value.flip", 0)>>
                     \o <<Qubit("reject_value.flip", 0)>>
                     \o ctrl
        ctrl_state1 == <<parity>> \o Chars("0", branch_qv_size) \o <<"1">> \o <<"1">>
                       \o Chars("1", Len(ctrl))
        mcz_list2 == <<oddity_qb>> \o <<Qubit("reject_value", 0)>> \o ctrl
        ctrl_state2 == <<parity>> \o Chars("1", Len(mcz_list2) - 1)
    IN  <<Call("qstep_diffuser", even, ctrl)>>
        \o invert(psi_prep(self, even))
        \o <<Instr("accept"), Instr("reject")>>
        \o <<mcz(mcz_list1, ctrl_state1)>>
        \o psi_prep(self, even)
        \o <<Instr("reject")>>
        \o <<mcz(mcz_list2, ctrl_state2)>>

\* the second call of quantum_step with the flag of the first
quantum_step_same_flag(self, ctrl) ==
    <<Call("quantum_step", FALSE, ctrl)>>
    \o qstep_diffuser(self, truthy(self.max_depth % 2), ctrl)
    \o qstep_diffuser(self, truthy(self.max_depth % 2), ctrl)

\* quantum_step(self, ctrl), lines 566-577
quantum_step(self, ctrl) ==
    <<Call("quantum_step", FALSE, ctrl)>>
    \o qstep_diffuser(self, truthy(self.max_depth % 2), ctrl)
    \o qstep_diffuser(self, ~truthy(self.max_depth % 2), ctrl)

\* with IterationEnvironment(qs, n): circuit -- the content, n times
RECURSIVE IterationEnvironment(_, _)
IterationEnvironment(n, circuit) ==
    IF n = 0 THEN <<>> ELSE circuit \o IterationEnvironment(n - 1, circuit)

\* the loop of estimate_phase with i repetitions for bit i instead of 2**i
RECURSIVE estimate_phase_loop_linear(_, _, _, _)
estimate_phase_loop_linear(self, base, from, precision) ==
    IF from >= precision THEN <<>>
    ELSE IterationEnvironment(from,
                              quantum_step(self, <<Qubit("qpe_res", base + from)>>))
         \o estimate_phase_loop_linear(self, base, from + 1, precision)

\* the loop of estimate_phase over the bits from..precision-1 of qpe_res;
\* base is the index of qpe_res[0] among the estimator qubits of the session
RECURSIVE estimate_phase_loop(_, _, _, _)
estimate_phase_loop(self, base, from, precision) ==
    IF from >= precision THEN <<>>
    ELSE IterationEnvironment(Pow2(from),
                              quantum_step(self, <<Qubit("qpe_res", base + from)>>))
         \o estimate_phase_loop(self, base, from + 1, precision)

\* the qubits of a register of the session, in order
RegisterQubits(reg, base, size) == [k \in 1 .. size |-> Qubit(reg, base + k - 1)]

\* estimate_phase(self, precision), lines 579-622: the instructions it
\* appends. QuantumFloat(precision, -precision) allocates its qubits one by
\* one, h(qpe_res) is one gate per qubit, QFT(qpe_res, inv=True) is kept as
\* one instruction (by = -1 for the inverse).
estimate_phase(self, base, precision) ==
    LET qpe_res == RegisterQubits("qpe_res", base, precision)
    IN  <<[Call("estimate_phase", FALSE, <<>>) EXCEPT !.by = precision]>>
        \o [k \in 1 .. precision |-> [Instr("qb_alloc") EXCEPT !.qubits = <<qpe_res[k]>>]]
        \o [k \in 1 .. precision |-> [Instr("h") EXCEPT !.qubits = <<qpe_res[k]>>]]
        \o estimate_phase_loop(self, base, 0, precision)
        \o <<[Instr("QFT") EXCEPT !.qubits = qpe_res, !.by = -1]>>

\* --------------------------------------------------------------- predicates
\* The accept and reject functions of the examples of the class: the trivial
\* one (return QuantumBool()) and a height condition (return tree.h == k).
HeightIs(k) == [kind |-> "h ==", k |-> k]

\* the value of the predicate f on the register values b
Evaluate(f, b) ==
    CASE f.kind = "trivial" -> FALSE
      [] f.kind = "h ==" -> b.h = f.k

\* ------------------------------------------------------------ state vectors
\* A basis state gives the values of h, branch_qa and branch_workspace; a
\* vector maps the basis states of its support to their amplitudes. Every
\* gate is applied with one positive factor on all amplitudes, so a vector
\* stands for the normalised state it is proportional to.
Basis(t) == [h |-> t.h, branch_qa |-> t.branch_qa, branch_workspace |-> t.branch_workspace]

Ket(b) == [k \in {b} |-> AOne]

RECURSIVE ASum(_)
ASum(S) ==
    IF S = {} THEN AZero
    ELSE LET x == CHOOSE y \in S : TRUE
         IN  AAdd(x[2], ASum(S \ {x}))

\* 2x2 matrices <<m00, m01, m10, m11>>: |j> goes to m0j |0> + m1j |1>
MatMul(A, B) ==
    <<AAdd(AMul(A[1], B[1]), AMul(A[2], B[3])),
      AAdd(AMul(A[1], B[2]), AMul(A[2], B[4])),
      AAdd(AMul(A[3], B[1]), AMul(A[4], B[3])),
      AAdd(AMul(A[3], B[2]), AMul(A[4], B[4]))>>

\* RY(-2 arctan(sqrt(k)) * sgn) times sqrt(1 + k) for sgn in {-1, 1}, the
\* identity for sgn = 0:  cos = 1/sqrt(1+k), sin = -sgn * sqrt(k)/sqrt(1+k)
Rot(k, sgn) ==
    <<AOne, AMulTerm(ASqrt(k), sgn, 1), AMulTerm(ASqrt(k), 0 - sgn, 1), AOne>>

\* the positive factor that comes with Rot(k, sgn)
RotScale(k, sgn) == IF sgn = 0 THEN AOne ELSE ASqrt(1 + k)

\* ry(p * phase + r * root_phase) with phase = -arctan(c)*2 for
\* c = degree**0.5 and root_phase = -arctan(c*sqrt(max_depth))*2
RyMatrix(x, g) == MatMul(Rot(degree, g.p), Rot(degree * x.max_depth, g.r))

RyScale(x, g) == AMul(RotScale(degree, g.p), RotScale(degree * x.max_depth, g.r))

\* bit number idx of the value v
Bit(v, idx) == (v \div Pow2(idx)) % 2

\* the parity of the bitwise and of v and w
RECURSIVE BitDot(_, _)
BitDot(v, w) ==
    IF v = 0 \/ w = 0 THEN 0
    ELSE ((v % 2) * (w % 2) + BitDot(v \div 2, w \div 2)) % 2

\* one control environment: the integer ctrl_state is compared with the
\* value of the control qubits, -1 standing for all ones; invert = True
\* executes the content where the condition is not met
ControlMet(x, c, b) ==
    LET met == IF c.on = "oddity_qb" THEN b.h % 2 = c.ctrl_state
               ELSE (b.h \div 2) = (IF c.ctrl_state < 0
                                   THEN Pow2(h_size(x.max_depth) - 1) + c.ctrl_state
                                   ELSE c.ctrl_state)
    IN  IF c.invert THEN ~met ELSE met

Active(x, g, b) == \A k \in 1 .. Len(g.controls) : ControlMet(x, g.controls[k], b)

\* the value of a qubit of an mcz gate on the basis state b
QubitValue(x, acc, rej, q, b) ==
    CASE q.reg = "h" -> Bit(b.h, q.idx)
      [] q.reg = "branch_workspace" -> Bit(b.branch_workspace, q.idx)
      [] q.reg = "accept_value.flip" -> IF Evaluate(acc, b) THEN 0 ELSE 1
      [] q.reg = "reject_value.flip" -> IF Evaluate(rej, b) THEN 0 ELSE 1
      [] q.reg = "reject_value" -> IF Evaluate(rej, b) THEN 1 ELSE 0
      [] q.reg = "ctrl" -> b.ctrl[q.idx + 1]

CharValue(c) == IF c = "1" THEN 1 ELSE 0

\* the mcz gate g acts on the basis state b: every qubit of its list has the
\* value that its character of ctrl_state asks for
mcz_acts(x, acc, rej, g, b) ==
    \A k \in 1 .. Len(g.qubits) :
        QubitValue(x, acc, rej, g.qubits[k], b) = CharValue(g.ctrl_state[k])

\* the markers of calls and of evaluations of the predicates
Markers == {"qstep_diffuser", "quantum_step", "estimate_phase", "accept", "reject"}

\* the image of the basis state b under the gate g of tree x: the set of
\* <<basis state, amplitude>>, all gates on one common positive factor
Step(x, acc, rej, g, b) ==
    CASE g.gate \in Markers -> {<<b, AOne>>}
      [] g.gate = "ry" ->
            IF Active(x, g, b)
            THEN LET M == RyMatrix(x, g)
                     bit == b.h % 2
                     Amp(nb) == M[2 * nb + bit + 1]
                 IN  {<<[b EXCEPT !.h = b.h - bit + nb], Amp(nb)>> :
                         nb \in {n \in {0, 1} : Amp(n) # AZero}}
            ELSE {<<b, RyScale(x, g)>>}
      [] g.gate = "cyclic_shift" ->
            IF Active(x, g, b)
            THEN LET L == b.branch_qa \o <<b.branch_workspace>>
                     n == Len(L)
                     R == IF g.by = 1
                          THEN <<L[n]>> \o SubSeq(L, 1, n - 1)
                          ELSE SubSeq(L, 2, n) \o <<L[1]>>
                 IN  {<<[b EXCEPT !.branch_qa = SubSeq(R, 1, n - 1),
                                  !.branch_workspace = R[n]], AOne>>}
            ELSE {<<b, AOne>>}
      [] g.gate = "h" /\ g.qubits = <<Qubit("branch_qa", 0)>> ->
            IF Active(x, g, b)
            THEN {<<[b EXCEPT !.branch_qa[1] = w],
                    ATerm(IF BitDot(b.branch_qa[1], w) = 0 THEN 1 ELSE -1, 1)>> :
                     w \in BranchVals}
            ELSE {<<b, ASqrt(degree)>>}
      [] g.gate = "increment" ->
            IF Active(x, g, b)
            THEN {<<[b EXCEPT !.h = (b.h + g.by) % Pow2(h_size(x.max_depth))], AOne>>}
            ELSE {<<b, AOne>>}
      [] g.gate = "mcz" ->
            IF mcz_acts(x, acc, rej, g, b)
            THEN {<<b, ATerm(-1, 1)>>}
            ELSE {<<b, AOne>>}

RECURSIVE GCDOf(_)
GCDOf(S) ==
    IF S = {} THEN 0
    ELSE LET z == CHOOSE y \in S : TRUE
         IN  GCD(IF z < 0 THEN 0 - z ELSE z, GCDOf(S \ {z}))

\* the vector divided by the greatest common divisor of its coefficients
Reduced(V) ==
    LET g == GCDOf(UNION {{V[b][m] : m \in DOMAIN V[b]} : b \in DOMAIN V})
    IN  IF g <= 1 THEN V
        ELSE [b \in DOMAIN V |-> [m \in DOMAIN V[b] |-> V[b][m] \div g]]

\* the gate g applied to the vector V
Apply(x, acc, rej, g, V) ==
    LET pairs == UNION {{<<b, i[1], i[2]>> : i \in Step(x, acc, rej, g, b)} : b \in DOMAIN V}
        W == [t \in {i[2] : i \in pairs} |->
                 ASum({<<i[1], AMul(V[i[1]], i[3])>> : i \in {j \in pairs : j[2] = t}})]
    IN  Reduced([t \in {u \in DOMAIN W : W[u] # AZero} |-> W[t]])

\* the circuit, instruction by instruction from the first one, on V
RECURSIVE Run(_, _, _, _, _)
Run(x, acc, rej, circuit, V) ==
    IF circuit = <<>> THEN V
    ELSE LET W == Apply(x, acc, rej, Head(circuit), V)
         IN  IF W = <<>> THEN W ELSE Run(x, acc, rej, Tail(circuit), W)

\* ------------------------------------------------------------------ init_phi
Sign(i) == IF i % 2 = 0 THEN 1 ELSE -1

\* the registers of t with h = v and the leading entries of branch_qa
\* encoded with vals
Registers(t, v, vals) ==
    [h |-> v, branch_qa |-> SliceAssign(Zeros(Len(t.branch_qa)), vals),
     branch_workspace |-> 0]

\* QuantumBacktrackingTree.init_phi, lines 681-689: the amplitudes h_state
\* on h, then under h == max_depth - i the values path[::-1][j] on
\* branch_qa[j] for j in range(i)
QuantumBacktrackingTree_init_phi(t, path) ==
    LET h_state == [v \in {t.max_depth} \cup {t.max_depth - i : i \in 1 .. Len(path)} |->
                       IF v = t.max_depth THEN ASqrt(t.max_depth)
                       ELSE ATerm(Sign(t.max_depth - v), 1)]
        Encoded(v) == SubSeq(Reverse(path), 1, t.max_depth - v)
    IN  [b \in {Registers(t, v, Encoded(v)) : v \in DOMAIN h_state} |-> h_state[b.h]]

\* Subtree.init_phi, lines 1449-1469: as above, with root_path[::-1][k] on
\* branch_qa[k+i] for k in range(len(root_path))
Subtree_init_phi(t, path) ==
    LET h_state == [v \in {t.max_depth} \cup {t.max_depth - i : i \in 1 .. Len(path)} |->
                       IF v = t.max_depth THEN ASqrt(t.max_depth)
                       ELSE ATerm(Sign(t.max_depth - v), 1)]
        Encoded(v) == SubSeq(Reverse(path), 1, t.max_depth - v) \o Reverse(t.root_path)
    IN  [b \in {Registers(t, v, Encoded(v)) : v \in DOMAIN h_state} |-> h_state[b.h]]

\* t.init_phi(path), dispatched on the class of t
init_phi(t, path) ==
    IF t.is_subtree THEN Subtree_init_phi(t, path)
    ELSE QuantumBacktrackingTree_init_phi(t, path)

\* ------------------------------------------------------------- the walk
\* One tree with its accept and reject functions; a node or the state phi
\* is prepared in its fresh registers, and the operators are applied.

\* the functions a tree is constructed with
Functions(max_depth) == {Trivial} \cup {HeightIs(k) : k \in 0 .. max_depth}

\* the lists of qubits of the caller passed for ctrl
CtrlVals == {<<>>, <<Qubit("ctrl", 0)>>}

InitWalk ==
    /\ \E d \in 1 .. MaxDepth :
          /\ trees = <<QuantumBacktrackingTree_init(d)>>
          /\ accept_function \in Functions(d)
          /\ reject_function \in Functions(d)
    /\ psi = Ket(Basis(trees[1]))
    /\ applied = <<>>
    /\ node = <<>>
    /\ support = {}
    /\ s = 0
    /\ made = <<TopMade>>
    /\ encoded = <<NotEncoded>>
    /\ call = NoCall
    /\ cl_accept = {}
    /\ stack = <<>>
    /\ traversed_nodes = <<>>
    /\ mes_kwargs = NoKwargs

\* a call of an operator of the tree
Applied(op, even, ctrl, precision) ==
    [op |-> op, even |-> even, ctrl |-> ctrl, precision |-> precision]

\* the number of estimator qubits the calls allocate
RECURSIVE EstimatorQubits(_)
EstimatorQubits(calls) ==
    IF calls = <<>> THEN 0
    ELSE (IF Head(calls).op = "estimate_phase" THEN Head(calls).precision ELSE 0)
         + EstimatorQubits(Tail(calls))

\* the instructions the call number k appends to the circuit of the session
Appends(calls, k) ==
    CASE calls[k].op = "qstep_diffuser" ->
            qstep_diffuser(trees[1], calls[k].even, calls[k].ctrl)
      [] calls[k].op = "quantum_step" ->
            quantum_step(trees[1], calls[k].ctrl)
      [] calls[k].op = "estimate_phase" ->
            estimate_phase(trees[1], EstimatorQubits(SubSeq(calls, 1, k - 1)),
                           calls[k].precision)
      [] calls[k].op = "psi_prep" ->
            psi_prep(trees[1], calls[k].even)

\* the circuit of the session, call by call
qs == [k \in 1 .. Len(applied) |-> Appends(applied, k)]

\* what the calls appended, in their order
RECURSIVE Flatten(_)
Flatten(circuits) ==
    IF circuits = <<>> THEN <<>> ELSE Head(circuits) \o Flatten(Tail(circuits))

\* the state of the registers of the tree
State == Run(trees[1], accept_function, reject_function, Flatten(qs), psi)

\* tree.init_node(path) on the fresh registers
InitNode(path) ==
    /\ call = NoCall
    /\ applied = <<>>
    /\ ~init_node_fails(trees[1], path)
    /\ psi' = Ket(Basis(init_node(trees[1], path)))
    /\ call' = [op |-> "init_node", recv |-> 1, arg |-> path, parent |-> 0,
                raised |-> FALSE, result |-> <<>>]
    /\ UNCHANGED <<s, support, node, trees, made, encoded, cl_accept, stack,
                   traversed_nodes, mes_kwargs, accept_function, reject_function, applied>>

\* tree.init_phi(path) on the fresh registers
InitPhi(path) ==
    /\ call = NoCall
    /\ applied = <<>>
    /\ psi' = init_phi(trees[1], path)
    /\ call' = [op |-> "init_phi", recv |-> 1, arg |-> path, parent |-> 0,
                raised |-> FALSE, result |-> <<>>]
    /\ UNCHANGED <<s, support, node, trees, made, encoded, cl_accept, stack,
                   traversed_nodes, mes_kwargs, accept_function, reject_function, applied>>

\* tree.qstep_diffuser(even = even, ctrl = ctrl)
QstepDiffuser(even, ctrl) ==
    /\ Len(applied) < MaxCalls
    /\ applied' = Append(applied, Applied("qstep_diffuser", even, ctrl, 0))
    /\ call' = [op |-> "qstep_diffuser", recv |-> 1, arg |-> ctrl, parent |-> 0,
                raised |-> FALSE, result |-> <<>>]
    /\ UNCHANGED <<s, support, node, trees, made, encoded, cl_accept, stack,
                   traversed_nodes, mes_kwargs, accept_function, reject_function, psi>>

\* tree.quantum_step(ctrl = ctrl)
QuantumStep(ctrl) ==
    /\ Len(applied) < MaxCalls
    /\ applied' = Append(applied, Applied("quantum_step", FALSE, ctrl, 0))
    /\ call' = [op |-> "quantum_step", recv |-> 1, arg |-> ctrl, parent |-> 0,
                raised |-> FALSE, result |-> <<>>]
    /\ UNCHANGED <<s, support, node, trees, made, encoded, cl_accept, stack,
                   traversed_nodes, mes_kwargs, accept_function, reject_function, psi>>

\* tree.estimate_phase(precision); the result is the register qpe_res
EstimatePhase(precision) ==
    /\ Len(applied) < MaxCalls
    /\ applied' = Append(applied, Applied("estimate_phase", FALSE, <<>>, precision))
    /\ call' = [op |-> "estimate_phase", recv |-> 1, arg |-> <<precision>>,
                parent |-> 0, raised |-> FALSE,
                result |-> RegisterQubits("qpe_res", EstimatorQubits(applied), precision)]
    /\ UNCHANGED <<s, support, node, trees, made, encoded, cl_accept, stack,
                   traversed_nodes, mes_kwargs, accept_function, reject_function, psi>>

NextWalk ==
    \/ \E path \in Paths(trees[1].max_depth) : InitNode(path)
    \/ \E path \in Paths(trees[1].max_depth) : InitPhi(path)
    \/ \E even \in BOOLEAN : \E ctrl \in CtrlVals : QstepDiffuser(even, ctrl)
    \/ \E ctrl \in CtrlVals : QuantumStep(ctrl)

SpecWalk == InitWalk /\ [][NextWalk]_vars

\* ------------------------------------------------------- phase estimation
\* One tree with fresh registers on which the operators and the phase
\* estimation are called.
InitEstimate ==
    /\ \E d \in 1 .. MaxDepth : trees = <<QuantumBacktrackingTree_init(d)>>
    /\ accept_function = Trivial
    /\ reject_function = Trivial
    /\ psi = Ket(Basis(trees[1]))
    /\ applied = <<>>
    /\ node = <<>>
    /\ support = {}
    /\ s = 0
    /\ made = <<TopMade>>
    /\ encoded = <<NotEncoded>>
    /\ call = NoCall
    /\ cl_accept = {}
    /\ stack = <<>>
    /\ traversed_nodes = <<>>
    /\ mes_kwargs = NoKwargs

NextEstimate ==
    \/ \E even \in BOOLEAN : \E ctrl \in CtrlVals : QstepDiffuser(even, ctrl)
    \/ \E ctrl \in CtrlVals : QuantumStep(ctrl)
    \/ \E precision \in 1 .. MaxPrecision : EstimatePhase(precision)

SpecEstimate == InitEstimate /\ [][NextEstimate]_vars

\* ------------------------------------------------- the operators on a node
\* One tree whose registers init_node sets to a node; psi_prep and
\* qstep_diffuser are then called on the tree, in any order, without ctrl.

\* psi_prep(tree, even = even)
PsiPrep(even) ==
    /\ Len(applied) < MaxCalls
    /\ applied' = Append(applied, Applied("psi_prep", even, <<>>, 0))
    /\ call' = [op |-> "psi_prep", recv |-> 1, arg |-> <<>>, parent |-> 0,
                raised |-> FALSE, result |-> <<>>]
    /\ UNCHANGED <<s, support, node, trees, made, encoded, cl_accept, stack,
                   traversed_nodes, mes_kwargs, accept_function, reject_function, psi>>

NextNode ==
    \/ \E path \in Paths(trees[1].max_depth) : InitNode(path)
    \/ \E even \in BOOLEAN : PsiPrep(even)
    \/ \E even \in BOOLEAN : QstepDiffuser(even, <<>>)

SpecNode == InitWalk /\ [][NextNode]_vars

\* ------------------------------------------------------------------ claims
\* the outermost call has ended
Done == Len(stack) = 1 /\ stack[1].pc \in {"returned", "raised"}

\* C1: whenever find_solution on a top-level tree returns a list p, p is the
\* root-to-node path of a node on which cl_accept is True, and len(p) is at
\* most max_depth.
C1_ReturnedPathIsAccepted ==
    (Done /\ stack[1].ret = "list") =>
        /\ stack[1].val \in cl_accept
        /\ Len(stack[1].val) <= trees[1].max_depth

\* C2: round trip of the node encoding: init_node(p) on a fresh top-level
\* tree leaves h = max_depth - len(p) and branch_qa = reverse(p) padded with
\* zeros, and path_decoder applied to the values init_node(p) wrote on a tree
\* returns exactly p.
C2_RoundTrip ==
    /\ \A t \in 1 .. Len(trees) :
         (encoded[t].done /\ ~trees[t].is_subtree) =>
            /\ trees[t].h = trees[t].max_depth - Len(encoded[t].path)
            /\ trees[t].branch_qa =
                  Reverse(encoded[t].path)
                     \o Zeros(trees[t].max_depth - Len(encoded[t].path))
    /\ call.op = "path_decoder" => call.result = encoded[call.recv].path

C2_DecodedLongPath ==
    /\ call.op = "path_decoder"
    /\ ~trees[call.recv].is_subtree
    /\ Len(call.result) >= 2
    /\ call.result[1] # call.result[2]

\* C3: subtree addressing: for every tree u and paths p, q, the tree made by
\* u.subtree(p) holds after init_node(q) the same h and the same branch_qa as
\* u holds after init_node(p + q).
C3_SubtreeAddressing ==
    \A t \in 1 .. Len(trees) :
        (/\ made[t].op = "subtree"
         /\ encoded[t].done
         /\ encoded[made[t].recv].done
         /\ encoded[made[t].recv].path = made[t].arg \o encoded[t].path) =>
            /\ trees[t].h = trees[made[t].recv].h
            /\ trees[t].branch_qa = trees[made[t].recv].branch_qa

\* C4: Subtree(parent_tree, root_path) raises exactly when root_path is longer
\* than parent_tree.max_depth; when it raises, no tree object was made and no
\* tree changed; when it does not, the trees that existed are as they were.
C4_SubtreePrecondition ==
    [][call'.op \in {"subtree", "copy"} =>
         /\ call'.raised <=> Len(call'.result) > trees[call'.parent].max_depth
         /\ call'.raised => UNCHANGED <<trees, made, encoded>>
         /\ ~call'.raised =>
               /\ Len(trees') = Len(trees) + 1
               /\ SubSeq(trees', 1, Len(trees)) = trees]_vars

C4_ConstructionFailed ==
    /\ call.op = "subtree"
    /\ call.raised
    /\ Len(call.result) = trees[call.parent].max_depth + 1

\* the innermost frame after a step that leaves the stack as deep as it was
TopAfter == stack'[Len(stack)]

C6_NoneOnlyBelowQuarter ==
    (/\ stack # <<>>
     /\ Top.pc = "returned" /\ Top.ret = "None"
     /\ encoded[Top.tree].qpe) => s < Quarter

\* C7: once a call has raised, the only thing that happens is that the error
\* passes unchanged to the caller: no tree is made or touched, no measurement
\* is taken, nothing is added to the traversed nodes, no frame is pushed.
C7_ErrorIsFatal ==
    [][(stack # <<>> /\ Top.pc = "raised") =>
         /\ Len(stack') = Len(stack) - 1
         /\ stack'[Len(stack')].pc = "raised"
         /\ stack'[Len(stack')].val = Top.val
         /\ UNCHANGED <<trees, made, encoded, s, traversed_nodes>>]_vars

C7_ErrorReachedTopLevel ==
    /\ Done /\ stack[1].pc = "raised" /\ stack[1].val = PrecisionError
    /\ Len(trees) >= 2
    /\ encoded[2].qpe
    /\ stack[1].i < Len(stack[1].new_branches)

\* C8: a loop that has run out of candidates raises the precision error, and
\* a call returns None only from the max_depth == 0 check or from the
\* s <= 0.25 check.
C8_ExhaustionRaises ==
    [][/\ (stack # <<>> /\ Top.pc = "loop" /\ Top.i = Len(Top.new_branches)) =>
             /\ Len(stack') = Len(stack)
             /\ TopAfter.pc = "raised" /\ TopAfter.val = PrecisionError
       /\ (/\ stack' # <<>>
           /\ stack'[Len(stack')].pc = "returned"
           /\ stack'[Len(stack')].ret = "None") =>
             /\ Len(stack') = Len(stack)
             /\ \/ Top.pc = "start" /\ trees[Top.tree].max_depth = 0
                \/ Top.pc = "quantum" /\ s' <= Quarter]_vars

C8_ExhaustedAfterNone ==
    /\ Done /\ stack[1].pc = "raised"
    /\ stack[1].i = Len(stack[1].new_branches)
    /\ stack[1].i >= 2
    /\ traversed_nodes # <<>>
    /\ s > ThreeEighths

\* C9: the classical base cases come before any quantum operation: a call on
\* an accepted root returns [], otherwise a call on a tree of depth 0 returns
\* None, and in both cases no register is written, estimate_phase is not run
\* and no measurement is taken.
C9_BaseCasesFirst ==
    [][(stack # <<>> /\ Top.pc = "start") =>
         LET t == trees[Top.tree]
             path == IF t.is_subtree THEN t.root_path ELSE <<>>
         IN  /\ Len(stack') = Len(stack)
             /\ path \in cl_accept =>
                   /\ TopAfter.pc = "returned" /\ TopAfter.ret = "list"
                   /\ TopAfter.val = <<>>
             /\ (path \notin cl_accept /\ t.max_depth = 0) =>
                   TopAfter.pc = "returned" /\ TopAfter.ret = "None"
             /\ (path \notin cl_accept /\ t.max_depth > 0) => TopAfter.pc = "quantum"
             /\ encoded[Top.tree] = NotEncoded
             /\ UNCHANGED <<trees, made, encoded, s, traversed_nodes>>]_vars

C9_AcceptedAtDepthZero ==
    /\ stack # <<>>
    /\ Top.pc = "returned" /\ Top.ret = "list" /\ Top.val = <<>>
    /\ trees[Top.tree].max_depth = 0
    /\ encoded[Top.tree] = NotEncoded

\* C10 (bounded nesting): every recursive call is on a tree of strictly
\* smaller max_depth than its caller's, so at most max_depth calls are nested
\* below the outermost call.
NestingBounded ==
    /\ \A k \in 2 .. Len(stack) :
         trees[stack[k].tree].max_depth < trees[stack[k - 1].tree].max_depth
    /\ Len(stack) <= trees[1].max_depth + 1

\* a bound on the steps a call on a tree of depth m takes: the two checks,
\* the measurement, and per candidate the call on a tree of smaller depth
RECURSIVE Work(_)
Work(m) == IF m = 0 THEN 1 ELSE MaxSupport * (Work(m - 1) + 3) + 3

\* the steps frame f may still take, those of the calls it has yet to make
\* included
FrameRank(f) ==
    LET m == trees[f.tree].max_depth
        left == Len(f.new_branches) - f.i
    IN  IF f.pc = "start" THEN Work(m)
        ELSE IF f.pc = "quantum" THEN Work(m) - 1
        ELSE IF f.pc = "loop" /\ m > 0 THEN left * (Work(m - 1) + 3) + 1
        ELSE IF f.pc = "call" /\ m > 0 THEN left * (Work(m - 1) + 3) + 2
        ELSE 0

RECURSIVE RankFrom(_)
RankFrom(k) == IF k > Len(stack) THEN 0 ELSE FrameRank(stack[k]) + RankFrom(k + 1)

Rank == RankFrom(1)

\* C10: every call of find_solution terminates, with a list, None or an
\* error: every step lowers a natural number, the search stops only when the
\* outermost call has ended, and the nesting stays bounded by max_depth.
C10_Terminates ==
    /\ [](NestingBounded /\ Rank >= 0 /\ (Done \/ ENABLED Next))
    /\ [][Rank' < Rank]_vars

C10_DeepestNesting ==
    /\ Len(stack) = MaxDepth + 1
    /\ Top.pc = "returned"

\* C14: init_node(path) of QuantumBacktrackingTree with len(path) <= max_depth
\* sets h to max_depth - len(path) and branch_qa[k] to path[len(path)-1-k] for
\* every k < len(path), and leaves the branch_qa entries from index len(path)
\* on and branch_workspace as they were; the empty path writes no entry.
C14_InitNodeFrame ==
    [][(/\ call'.op = "init_node"
        /\ ~trees[call'.recv].is_subtree
        /\ Len(call'.arg) <= trees[call'.recv].max_depth) =>
          LET before == trees[call'.recv]
              after == trees'[call'.recv]
              path == call'.arg
          IN  /\ ~call'.raised
              /\ after.h = before.max_depth - Len(path)
              /\ Len(after.branch_qa) = Len(before.branch_qa)
              /\ \A k \in 0 .. (Len(before.branch_qa) - 1) :
                    after.branch_qa[k + 1] =
                        IF k < Len(path) THEN path[Len(path) - k]
                        ELSE before.branch_qa[k + 1]
              /\ after.branch_workspace = before.branch_workspace
              /\ Len(path) = 0 => after.branch_qa = before.branch_qa
              /\ \A u \in 1 .. Len(trees) : u # call'.recv => trees'[u] = trees[u]]_vars

C14_WroteShortPath ==
    /\ call.op = "init_node"
    /\ ~call.raised
    /\ ~trees[call.recv].is_subtree
    /\ Len(call.arg) = 1
    /\ call.arg[1] = 1
    /\ trees[call.recv].max_depth = 2
    /\ trees[call.recv].branch_qa = <<1, 0>>

\* C15: init_node(path) fails when len(path) > max_depth, on a top-level tree
\* and on a Subtree, and a failed call has changed neither h nor any entry of
\* branch_qa.
C15_InitNodeFails ==
    [][call'.op = "init_node" =>
          /\ Len(call'.arg) > trees[call'.recv].max_depth => call'.raised
          /\ call'.raised => UNCHANGED <<trees, encoded>>]_vars

C15_FailedOnSubtree ==
    /\ call.op = "init_node"
    /\ call.raised
    /\ trees[call.recv].is_subtree
    /\ trees[call.recv].root_path # <<>>
    /\ Len(call.arg) = trees[call.recv].max_depth + 1

\* C18: copy() returns a tree that stands for the same tree as the receiver:
\* same max_depth, same root path, and after init_node(q) on both the same h
\* and the same branch_qa.
C18_CopyIsSameTree ==
    \A t \in 1 .. Len(trees) :
        made[t].op = "copy" =>
            LET r == trees[made[t].recv]
                c == trees[t]
            IN  /\ c.max_depth = r.max_depth
                /\ c.root_path = r.root_path
                /\ (/\ encoded[t].done
                    /\ encoded[made[t].recv].done
                    /\ encoded[t].path = encoded[made[t].recv].path) =>
                        /\ c.h = r.h
                        /\ c.branch_qa = r.branch_qa

\* C17: the measurement options given to find_solution hold for the whole
\* search: the joint measurement at every recursion level is taken with the
\* measurement_kwargs of the outermost call.
C17_KwargsAtEveryLevel ==
    [][(stack # <<>> /\ Top.pc = "quantum") =>
          mes_kwargs' = stack[1].measurement_kwargs]_vars

\* the qstep_diffuser calls of a circuit, in their order
DiffuserCalls(circuit) == SelectSeq(circuit, LAMBDA g : g.gate = "qstep_diffuser")

C12_RealizesRBRA ==
    (Len(applied) = 1 /\ call.op = "quantum_step" /\ call.arg = <<>>) =>
        State = Run(trees[1], accept_function, reject_function,
                    qstep_diffuser(trees[1], TRUE, <<>>)
                    \o qstep_diffuser(trees[1], FALSE, <<>>), psi)

\* the positions of a circuit that hold an instruction of the given kind
Positions(circuit, gate) == {k \in 1 .. Len(circuit) : circuit[k].gate = gate}

\* the instructions on estimator qubits and the markers of the calls of
\* quantum_step and qstep_diffuser, in the order of the circuit
Outline(circuit) ==
    SelectSeq(circuit, LAMBDA g :
        \/ g.gate \in {"qb_alloc", "quantum_step", "qstep_diffuser", "QFT"}
        \/ g.gate = "h" /\ g.qubits[1].reg = "qpe_res")

\* C13: estimate_phase(precision) allocates precision estimator qubits and
\* returns them; every one gets its Hadamard gate before the first walk
\* step; quantum_step is called 2^i times with ctrl = [qpe_res[i]] for each
\* bit i and no other time, 2^precision - 1 times in all; the inverse
\* Fourier transform on the estimator is the one last instruction.
C13_PhaseEstimation ==
    [][(call'.op = "estimate_phase" /\ Len(applied') = Len(applied) + 1) =>
          \A c \in {qs'[Len(applied')]} :
          \A o \in {Outline(c)} :
          LET precision == call'.arg[1]
              qpe_res == call'.result
              allocs == Positions(o, "qb_alloc")
              hadamards == Positions(o, "h")
              steps == Positions(o, "quantum_step")
          IN  /\ allocs = 1 .. precision
              /\ qpe_res = [k \in 1 .. precision |-> o[k].qubits[1]]
              /\ Cardinality({qpe_res[k] : k \in 1 .. precision}) = precision
              /\ hadamards = precision + 1 .. 2 * precision
              /\ {o[k].qubits[1] : k \in hadamards} = {qpe_res[k] : k \in 1 .. precision}
              /\ Cardinality(steps) = Pow2(precision) - 1
              /\ \A b \in 0 .. precision - 1 :
                    Cardinality({k \in steps : o[k].ctrl = <<qpe_res[b + 1]>>}) = Pow2(b)
              /\ \A k \in Positions(o, "qstep_diffuser") :
                    \E b \in 1 .. precision : o[k].ctrl = <<qpe_res[b]>>
              /\ Positions(o, "QFT") = {Len(o)}
              /\ c[Len(c)] = o[Len(o)]
              /\ o[Len(o)].by = -1
              /\ o[Len(o)].qubits = qpe_res]_vars

\* estimate_phase was called with precision 2 after an earlier call of it
C13_EstimatedTwice ==
    /\ Len(applied) = 2
    /\ call.op = "estimate_phase"
    /\ call.arg = <<2>>
    /\ Positions(qs[1], "QFT") # {}

\* the state phi of the docstring of init_phi for the node path of tree t:
\* sqrt(max_depth) on the root, (-1)^i on the node path[:i] for i >= 1
PhiOnPath(t, path) ==
    [b \in {Basis(init_node(t, SubSeq(path, 1, i))) : i \in 0 .. Len(path)} |->
        IF b.h = t.max_depth THEN ASqrt(t.max_depth)
        ELSE ATerm(Sign(t.max_depth - b.h), 1)]

\* C16: init_phi(path) prepares the state whose support is the len(path)+1
\* nodes path[:i], i = 0..len(path): h = max_depth - i with branch_qa[:i] =
\* reverse(path[:i]), amplitude (-1)^i for i >= 1 and sqrt(max_depth) on the
\* root, for every path.
C16_PhiOnPath ==
    [][call'.op = "init_phi" => psi' = PhiOnPath(trees[1], call'.arg)]_vars

\* the registers hold one node of the tree, as init_node leaves them
AtNode == \E path \in Paths(trees[1].max_depth) : psi = Ket(Basis(init_node(trees[1], path)))

\* the calls so far are n calls of qstep_diffuser without ctrl, all with the
\* same flag
SameDiffusers(n) ==
    /\ Len(applied) = n
    /\ \A k \in 1 .. n : applied[k] = Applied("qstep_diffuser", applied[1].even, <<>>, 0)

\* C19: with the tree initialized at a node x, qstep_diffuser(even = e)
\* applied twice leaves the registers in the basis state of x, for every x,
\* e, accept and reject.
C19_Involution ==
    (AtNode /\ SameDiffusers(2)) => DOMAIN State = DOMAIN psi

\* the diffuser was applied twice to a node that one application spreads
\* over the node and its children, with accept and reject not trivial
C19_SpreadAndBack ==
    /\ AtNode /\ SameDiffusers(2)
    /\ accept_function # Trivial /\ reject_function # Trivial
    /\ call.op = "qstep_diffuser"
    /\ Cardinality(DOMAIN Run(trees[1], accept_function, reject_function, qs[1], psi)) = 1 + degree

\* the one basis state of a vector with a single one
Only(V) == CHOOSE b \in DOMAIN V : TRUE

\* the amplitude is a sum of positive terms
Positive(a) == a # AZero /\ \A m \in DOMAIN a : a[m] > 0

\* the flag of the diffuser that acts on the nodes of the height of b
FlagOf(b) == b.h % 2 = 0

\* one call of qstep_diffuser without ctrl was made on a node, with the flag
\* of the node's height
DiffusedOwnClass ==
    /\ AtNode /\ SameDiffusers(1)
    /\ applied[1].even = FlagOf(Only(psi))

\* C20: a node on which accept is True is left unchanged by the diffuser of
\* its parity class; a node on which reject is True and accept is False
\* comes back as the same basis state with its sign flipped.
C20_MarkedNodes ==
    DiffusedOwnClass =>
        /\ Evaluate(accept_function, Only(psi)) =>
              (DOMAIN State = DOMAIN psi /\ Positive(State[Only(psi)]))
        /\ (Evaluate(reject_function, Only(psi)) /\ ~Evaluate(accept_function, Only(psi))) =>
              (DOMAIN State = DOMAIN psi /\ Positive(ANeg(State[Only(psi)])))

\* a basis state of the algorithmic subspace of tree t: the entries of
\* branch_qa from index max_depth - h on are zero, and so is branch_workspace
Algorithmic(t, b) ==
    /\ b.branch_workspace = 0
    /\ \A k \in 0 .. (Len(b.branch_qa) - 1) :
          k >= t.max_depth - b.h => b.branch_qa[k + 1] = 0

Nth(circuit, gate, k) ==
    CHOOSE i \in Positions(circuit, gate) :
        Cardinality({j \in Positions(circuit, gate) : j < i}) = k - 1

\* C22: one qstep_diffuser call executes, in this order: the inverse of
\* psi_prep, the evaluation of accept and of reject, the first mcz, psi_prep
\* forward with the same flag, the second evaluation of reject, the second
\* mcz. accept is evaluated once and reject twice, the second time after the
\* forward psi_prep.
C22_DiffuserOrder ==
    [][(call'.op = "qstep_diffuser" /\ Len(applied') = Len(applied) + 1) =>
          \A c \in {qs'[Len(applied')]} :
          \A forward \in {psi_prep(trees[1], applied'[Len(applied')].even)} :
          LET n == Len(forward)
              accepts == Positions(c, "accept")
              rejects == Positions(c, "reject")
              flips == Positions(c, "mcz")
          IN  /\ Cardinality(accepts) = 1
              /\ Cardinality(rejects) = 2
              /\ Cardinality(flips) = 2
              /\ SubSeq(c, 2, n + 1) = invert(forward)
              /\ \A a \in accepts : a > n + 1 /\ a < Nth(c, "reject", 1)
              /\ Nth(c, "reject", 1) < Nth(c, "mcz", 1)
              /\ SubSeq(c, Nth(c, "mcz", 1) + 1, Nth(c, "mcz", 1) + n) = forward
              /\ Nth(c, "reject", 2) = Nth(c, "mcz", 1) + n + 1
              /\ Nth(c, "mcz", 2) = Nth(c, "reject", 2) + 1
              /\ Len(c) = Nth(c, "mcz", 2)
              /\ \A k \in 1 .. Len(c) :
                    c[k].gate \in {"accept", "reject", "mcz"} =>
                        k \in {n + 2, n + 3, n + 4, 2 * n + 5, 2 * n + 6}]_vars

\* the diffuser with even = True was called on a tree of depth 2, where
\* psi_prep is the longest of its four branches
C22_DiffusedEven ==
    /\ call.op = "qstep_diffuser"
    /\ applied[Len(applied)].even
    /\ trees[1].max_depth = 2
    /\ Len(psi_prep(trees[1], TRUE)) = 7
    /\ invert(psi_prep(trees[1], TRUE)) # psi_prep(trees[1], TRUE)

\* basis states of the registers of tree t together with the values of n
\* control qubits of the caller: every value of h, of branch_workspace and
\* of the control qubits, with branch_qa all zeros and all ones
ControlledBasis(t, n) ==
    [h : 0 .. (Pow2(h_size(t.max_depth)) - 1),
     branch_qa : {[k \in 1 .. t.max_depth |-> v] : v \in {0, degree - 1}},
     branch_workspace : BranchVals,
     ctrl : [1 .. n -> {0, 1}]]

AscendingH(lst) == \A a, b \in 1 .. Len(lst) : a < b => lst[a].h <= lst[b].h

\* sorted holds the entries of lst, those of equal h in the order of lst
StableOf(sorted, lst) ==
    /\ Len(sorted) = Len(lst)
    /\ \A k \in 0 .. MaxDepth + 1 :
          SelectSeq(sorted, LAMBDA x : x.h = k) = SelectSeq(lst, LAMBDA x : x.h = k)

\* the candidate list of frame f is that of a measurement
Sorted(f) ==
    f.pc \in {"loop", "call"} =>
        /\ \A k \in 1 .. Len(f.new_branches) : f.new_branches[k].qpe = 0
        /\ AscendingH(f.new_branches)

\* what the sort at line 1554 makes of every result the measurement of the
\* innermost call may give
SortsEveryResult ==
    (stack # <<>> /\ Top.pc = "quantum") =>
        \A mes_res \in MesResults(init_node(trees[Top.tree], <<>>)) :
            \A keys \in {ZeroBranches(mes_res)} :
                /\ Len(keys) = Cardinality({k \in 1 .. Len(mes_res) : mes_res[k].qpe = 0})
                /\ \A k \in 1 .. Len(keys) : keys[k].qpe = 0
                /\ AscendingH(SortByH(keys, trees[Top.tree].max_depth))
                /\ StableOf(SortByH(keys, trees[Top.tree].max_depth), keys)

\* the loop goes through the candidates in the order of the list, one at a
\* time, and stops at the first recursive call that returns a list
InListOrder ==
    /\ (stack # <<>> /\ Top.pc = "loop" /\ Len(stack') >= Len(stack)) =>
          /\ TopAfter.new_branches = Top.new_branches
          /\ TopAfter.pc = "loop" => TopAfter.i = Top.i + 1
          /\ TopAfter.pc = "call" =>
                /\ TopAfter.i = Top.i + 1
                /\ TopAfter.new_path = path_decoder(trees[Top.tree],
                                                    Top.new_branches[Top.i + 1].h,
                                                    Top.new_branches[Top.i + 1].branch_qa)
                /\ Len(stack') = Len(stack) + 1
          /\ TopAfter.pc \in {"loop", "call", "raised"}
    /\ (Len(stack) >= 2 /\ Top.pc = "returned") =>
          /\ Len(stack') = Len(stack) - 1
          /\ stack'[Len(stack')].new_branches = Caller.new_branches
          /\ stack'[Len(stack')].i = Caller.i
          /\ Top.ret = "list" =>
                /\ stack'[Len(stack')].pc = "returned"
                /\ stack'[Len(stack')].ret = "list"
          /\ Top.ret = "None" => stack'[Len(stack')].pc = "loop"
    /\ (stack # <<>> /\ Top.pc = "returned" /\ Len(stack') >= Len(stack)) =>
          UNCHANGED stack

\* C24: within one level of find_solution only outcomes with estimator
\* value 0 become candidates; they are recursed into in non-decreasing order
\* of h, those of equal h in the order of the measurement result; the loop
\* stops at the first candidate whose recursion returns a solution.
C24_CandidateOrder ==
    /\ []((\A k \in 1 .. Len(stack) : Sorted(stack[k])) /\ SortsEveryResult)
    /\ [][InListOrder]_vars

\* the search ended at the deeper of two candidates and left the other one,
\* of larger h, unexplored
C24_StoppedAtFirstSuccess ==
    /\ Done /\ stack[1].ret = "list"
    /\ Len(stack[1].new_branches) = 2
    /\ stack[1].i = 1
    /\ stack[1].new_branches[1].h < stack[1].new_branches[2].h

\* path is an entry of the list lst
InList(lst, path) == \E k \in 1 .. Len(lst) : lst[k] = path

\* a step that enters a recursive call: the candidate has a non-empty
\* relative path, and its absolute path is not in the traversed list
EntersUntraversed ==
    Len(stack') = Len(stack) + 1 =>
        LET caller == stack'[Len(stack)]
            sub == trees'[stack'[Len(stack')].tree]
        IN  /\ Len(caller.new_path) > 0
            /\ ~InList(traversed_nodes, caller.path \o caller.new_path)
            /\ sub.root_path = caller.path \o caller.new_path
            /\ UNCHANGED traversed_nodes

\* the traversed list changes only when a recursive call returned None,
\* and then by the absolute path of the candidate, appended
GrowsByNone ==
    IF Len(stack) >= 2 /\ Top.pc = "returned" /\ Top.ret = "None"
    THEN traversed_nodes' = Append(traversed_nodes, Caller.path \o Caller.new_path)
    ELSE UNCHANGED traversed_nodes

\* no two of the subtrees the search made have the same root path
RecursedOnce ==
    \A t, u \in 2 .. Len(trees) : t # u => trees[t].root_path # trees[u].root_path

\* C25: a candidate is recursed into only if its relative path is not empty
\* and its absolute path is not in the traversed list; a candidate whose
\* recursion returns None is appended to the list as its absolute path; the
\* list of the top-level call only grows; no absolute path is recursed into
\* more than once.
C25_Deduplication ==
    /\ [][EntersUntraversed /\ GrowsByNone]_vars
    /\ []RecursedOnce

\* a nested call passed over a candidate that an earlier recursion of the
\* level above had put on the traversed list
C25_SkippedTraversed ==
    /\ Len(stack) = 2
    /\ Top.pc = "loop"
    /\ Top.i >= 1
    /\ LET rel == path_decoder(trees[Top.tree], Top.new_branches[Top.i].h,
                               Top.new_branches[Top.i].branch_qa)
       IN  /\ Len(rel) > 0
           /\ InList(traversed_nodes, Top.path \o rel)

\* the rotation the ry gates of a circuit give the parity qubit of a node
\* of height v, as <<multiple of phase, multiple of root_phase>>: the
\* controls of the ry gates read the upper bits of h, as the increments
\* before them left it
RECURSIVE NetRotation(_, _, _)
NetRotation(x, circuit, v) ==
    IF circuit = <<>> THEN <<0, 0>>
    ELSE LET g == Head(circuit)
             rest == NetRotation(x, Tail(circuit),
                                 IF g.gate = "increment"
                                 THEN (v + g.by) % Pow2(h_size(x.max_depth))
                                 ELSE v)
         IN  IF g.gate = "ry" /\ Active(x, g, [h |-> v])
             THEN <<g.p + rest[1], g.r + rest[2]>>
             ELSE rest

\* the values of h[1:] that the control environments of a circuit select,
\* those given as -1 (all ones) and the others
UpperPatterns(x, circuit, ones) ==
    {IF c.ctrl_state < 0 THEN Pow2(h_size(x.max_depth) - 1) + c.ctrl_state
     ELSE c.ctrl_state :
        c \in {d \in UNION {{circuit[k].controls[j] : j \in 1 .. Len(circuit[k].controls)} :
                                k \in 1 .. Len(circuit)} :
                  d.on = "h[1:]" /\ (d.ctrl_state < 0) = ones}}

Increments(circuit) == SelectSeq(circuit, LAMBDA g : g.gate = "increment")

\* the registers of tree t with the value v in h
WithHeight(t, v) == [Basis(t) EXCEPT !.h = v]

\* the register h of tree t holds 0 .. max_depth + 1, and the decrement and
\* the increment of psi_prep(even = True) take every value of h to its
\* predecessor modulo 2^width and back
WideEnough(t) ==
    LET size == h_size(t.max_depth)
        steps == Increments(psi_prep(t, TRUE))
    IN  /\ \A v \in 0 .. t.max_depth + 1 : Encodable(v, size)
        /\ Len(steps) = 2
        /\ steps[1].by = -1 /\ steps[2].by = 1
        /\ \A v \in 0 .. Pow2(size) - 1 :
              \A below \in {IF v = 0 THEN Pow2(size) - 1 ELSE v - 1} :
                  /\ Step(t, Trivial, Trivial, steps[1], WithHeight(t, v)) =
                        {<<WithHeight(t, below), AOne>>}
                  /\ Step(t, Trivial, Trivial, steps[2], WithHeight(t, below)) =
                        {<<WithHeight(t, v), AOne>>}

\* C27: for every max_depth >= 0 the register h of width
\* ceil(log2(max_depth+2)) holds every height 0..max_depth and max_depth+1
\* without wrap-around, and the decrement of h in psi_prep followed by the
\* increment restores every value of h.
C27_HeightRegister ==
    \A t \in 1 .. Len(trees) : WideEnough(trees[t])

\* trees of depth 0 and of depth 2 were made, the widths 1 and 2: on the
\* second, max_depth + 1 is the largest value of the register
C27_DepthsZeroAndTwo ==
    /\ \E t \in 1 .. Len(trees) : trees[t].max_depth = 0 /\ h_size(0) = 1
    /\ \E t \in 1 .. Len(trees) :
          /\ trees[t].max_depth = 2
          /\ trees[t].max_depth + 1 = Pow2(h_size(trees[t].max_depth)) - 1
    /\ Len(trees) >= 3

\* the depth, the root path and the length of the path register of a tree
Shape(t) == <<t.max_depth, t.root_path, Len(t.branch_qa)>>

\* C28: every Subtree made by subtree() and copy() calls has max_depth >= 0,
\* max_depth = original_tree.max_depth - len(root_path) and a branch_qa of
\* max_depth + len(root_path) entries; making a Subtree changes max_depth,
\* root_path and the length of branch_qa of no tree that exists.
C28_SubtreeShape ==
    /\ [](\A t \in 1 .. Len(trees) :
            trees[t].is_subtree =>
                /\ trees[t].max_depth >= 0
                /\ trees[t].max_depth =
                      trees[trees[t].original_tree].max_depth - Len(trees[t].root_path)
                /\ Len(trees[t].branch_qa) =
                      trees[t].max_depth + Len(trees[t].root_path))
    /\ [][/\ Len(trees') >= Len(trees)
          /\ \A t \in 1 .. Len(trees) : Shape(trees'[t]) = Shape(trees[t])]_vars

\* a subtree was made through the copy of a subtree
C28_SubtreeOfCopy ==
    \E t \in 1 .. Len(trees) :
        /\ made[t].op = "subtree"
        /\ made[made[t].recv].op = "copy"
        /\ trees[made[made[t].recv].recv].root_path # <<>>
        /\ Len(trees[t].root_path) = 2
        /\ trees[t].max_depth = 0

\* tree t is a Subtree that subtree() made of a top-level tree
SubtreeOfTop(t) ==
    /\ made[t].op = "subtree"
    /\ ~trees[made[t].recv].is_subtree

\* C29: for a top-level tree T and paths p, q, T.subtree(p).subtree(q) is
\* the tree that T.subtree(p + q) is: max_depth = T.max_depth - len(p) -
\* len(q), root_path = p + q, original_tree = T, fresh registers; the call
\* fails exactly when len(p) + len(q) > T.max_depth; the root_path of
\* T.subtree(p) is as it was.
C29_Composition ==
    [][(call'.op = "subtree" /\ SubtreeOfTop(call'.recv)) =>
          LET S == call'.recv
              T == made[S].recv
              p == made[S].arg
              q == call'.arg
          IN  /\ call'.raised <=> Len(p) + Len(q) > trees[T].max_depth
              /\ ~call'.raised =>
                    /\ Len(trees') = Len(trees) + 1
                    /\ trees'[Len(trees')] =
                          [max_depth        |-> trees[T].max_depth - Len(p) - Len(q),
                           h                |-> 0,
                           branch_qa        |-> Zeros(trees[T].max_depth),
                           branch_workspace |-> 0,
                           is_subtree       |-> TRUE,
                           root_path        |-> p \o q,
                           original_tree    |-> T]
              /\ call'.raised => trees' = trees
              /\ trees'[S] = trees[S]
              /\ trees[S].root_path = p]_vars

\* a subtree of a subtree of the top-level tree was made, both paths not
\* empty
C29_Composed ==
    /\ call.op = "subtree"
    /\ ~call.raised
    /\ SubtreeOfTop(call.recv)
    /\ made[call.recv].arg # <<>>
    /\ call.arg # <<>>
    /\ trees[Len(trees)].root_path = made[call.recv].arg \o call.arg

\* C30: for every tree, top-level or Subtree, and every relative path p with
\* len(p) <= max_depth, QBTNode(tree, p).sv_specifier() gives h and every
\* entry of branch_qa the value that tree.init_node(p) writes on a fresh
\* tree, zero past the encoded path, and zero to branch_workspace;
\* path_decoder on its h and branch_qa returns p.
C30_SpecifierInvertsEncoding ==
    (call.op = "sv_specifier" /\ Len(call.arg) <= trees[call.recv].max_depth) =>
        LET t == trees[call.recv]
            written == init_node(t, call.arg)
            sv == call.result
        IN  /\ ~init_node_fails(t, call.arg)
            /\ sv.h = written.h
            /\ sv.branch_qa = written.branch_qa
            /\ \A k \in 1 .. Len(sv.branch_qa) :
                  k > Len(t.root_path) + Len(call.arg) => sv.branch_qa[k] = 0
            /\ sv.branch_workspace = 0
            /\ path_decoder(t, sv.h, sv.branch_qa) = call.arg

\* the specifier of a node below the root of a Subtree whose root is not
\* the root of the top-level tree, with entries that the reversal moves
C30_SpecifiedInSubtree ==
    /\ call.op = "sv_specifier"
    /\ trees[call.recv].is_subtree
    /\ trees[call.recv].root_path # <<>>
    /\ call.arg # <<>>
    /\ Len(call.arg) <= trees[call.recv].max_depth
    /\ call.result.branch_qa[1] # call.result.branch_qa[2]

====
